---- MODULE Spec2Model ----
(***************************************************************************)
(* Model of the two Lambda handlers of the audio summarizer                *)
(* (src/lambda/lambda_transcribe.py, src/lambda/lambda_summarize.py) and   *)
(* of the transcript formatter extract_transcript_from_textract.           *)
(*                                                                         *)
(* Text is a sequence of tokens.  A token is either one whitespace         *)
(* character (" " or "\n") or a run of characters without whitespace, so   *)
(* that str.rstrip() is the removal of the trailing whitespace tokens.     *)
(***************************************************************************)
EXTENDS Integers, Sequences, FiniteSets, TLC

VARIABLES
    fmt_doc,      \* formatter run: the parsed transcript document given
    fmt_out,      \* formatter run: NotRun, or the outcome of the call
    s3,           \* object storage: bucket -> key -> body or Absent
    template,     \* the deployment package's prompt_template.txt, or Absent
    sum_pc,       \* summarizer invocation -> position in lambda_handler
    sum_event,    \* summarizer invocation -> (bucket, key) of Records[0]
    sum_local,    \* summarizer invocation -> locals (transcript, summary)
    sum_calls,    \* summarizer invocation -> external requests it issued
    sum_ret,      \* summarizer invocation -> returned dict, or NoReturn
    put_log,      \* the put_object requests applied to the store, in order
    environ,      \* os.environ of the transcription function
    jobs,         \* transcription jobs accepted by the speech service
    tr_pc,        \* transcriber invocation -> position in lambda_handler
    tr_event,     \* transcriber invocation -> (bucket, key) of Records[0]
    tr_calls,     \* transcriber invocation -> job-start requests it issued
    tr_ret,       \* transcriber invocation -> returned dict, or NoReturn
    events,       \* object-created notifications of the store, in order
    completed     \* transcription jobs the speech service has finished

fmtVars == <<fmt_doc, fmt_out>>
sumVars == <<s3, template, sum_pc, sum_event, sum_local, sum_calls, sum_ret, put_log>>
trVars == <<environ, jobs, tr_pc, tr_event, tr_calls, tr_ret>>
pipeVars == <<events, completed>>
vars == <<fmtVars, sumVars, trVars, pipeVars>>

----------------------------------------------------------------------------
(* Bounds *)

\* longest item list given to the formatter
MaxItems == 3
\* number of Summarization Handler invocations
NumSum == 2
\* number of Transcription Handler invocations
NumTr == 2
\* uploads of dialog.mp3 to the pipeline
MaxUploads == 1

----------------------------------------------------------------------------
(* Python values *)

None == "<None>"
Absent == [absent |-> TRUE]
NotRun == [not_run |-> TRUE]
NoReturn == [no_return |-> TRUE]

Whitespace == {" ", "\n"}

\* an exception object: its class and str(e)
Exc(type, str) == [raised |-> type, str |-> str]
\* str(KeyError(k)) is repr(k)
KeyError(k) == Exc("KeyError", <<"'", k, "'">>)
\* no exception
NoError == Exc("<none>", <<>>)

RECURSIVE rstrip(_)
rstrip(s) ==
    IF s # <<>> /\ s[Len(s)] \in Whitespace
    THEN rstrip(SubSeq(s, 1, Len(s) - 1))
    ELSE s

\* u occurs in s as a contiguous run of tokens
Contains(s, u) ==
    \E i \in 0..(Len(s) - Len(u)) : SubSeq(s, i + 1, i + Len(u)) = u

\* number of places where u occurs in s
Occurrences(s, u) ==
    Cardinality({i \in 0..(Len(s) - Len(u)) : SubSeq(s, i + 1, i + Len(u)) = u})

\* json.dumps of a str: quoted, with the control character escaped
RECURSIVE JsonEscape(_)
JsonEscape(s) ==
    IF s = <<>> THEN <<>>
    ELSE <<(IF s[1] = "\n" THEN "\\n" ELSE s[1])>> \o JsonEscape(Tail(s))

JsonDumps(s) == <<"\"">> \o JsonEscape(s) \o <<"\"">>

----------------------------------------------------------------------------
(* Transcript Formatter: extract_transcript_from_textract *)

\* f"\n{current_speaker}: "
Header(label) == <<"\n", label, ":", " ">>

\* item.get('speaker_label', None)
GetSpeakerLabel(item) ==
    IF "speaker_label" \in DOMAIN item THEN item.speaker_label ELSE None

\* what item['alternatives'][0]['content'] raises, or NoError
ContentError(item) ==
    IF "alternatives" \notin DOMAIN item THEN KeyError("alternatives")
    ELSE IF item.alternatives = <<>>
         THEN Exc("IndexError", <<"list", " ", "index", " ", "out", " ", "of", " ", "range">>)
    ELSE IF "content" \notin DOMAIN item.alternatives[1] THEN KeyError("content")
    ELSE NoError

\* fault: a header for every labelled item
NewSpeakerRepeat(speaker_label, current_speaker) ==
    speaker_label # None
\* the header test of the loop body
NewSpeaker(speaker_label, current_speaker) ==
    speaker_label # None /\ speaker_label # current_speaker

\* what a punctuation item does to the text emitted so far
StripForPunctuation(text) == rstrip(text)

\* one iteration of the loop; st holds output_text and current_speaker, and
\* headers records each header segment the iteration appends
FormatItem(item, st) ==
    LET speaker_label == GetSpeakerLabel(item)
        cerr == ContentError(item)
    IN  IF cerr # NoError THEN [st EXCEPT !.error = cerr]
        ELSE
        LET content == item.alternatives[1].content
            hdr == NewSpeaker(speaker_label, st.current_speaker)
            cur == IF hdr THEN speaker_label ELSE st.current_speaker
            out1 == IF hdr THEN st.output_text \o Header(cur) ELSE st.output_text
            hs == IF hdr THEN Append(st.headers, Header(cur)) ELSE st.headers
        IN  IF "type" \notin DOMAIN item
            THEN [st EXCEPT !.error = KeyError("type")]
            ELSE
            LET out2 == IF item.type = "punctuation"
                        THEN StripForPunctuation(out1) ELSE out1
            IN  [output_text |-> out2 \o content \o <<" ">>,
                 current_speaker |-> cur,
                 headers |-> hs,
                 error |-> NoError]

RECURSIVE FormatLoop(_, _, _)
FormatLoop(items, i, st) ==
    IF i > Len(items) \/ st.error # NoError THEN st
    ELSE FormatLoop(items, i + 1, FormatItem(items[i], st))

\* transcript_json is the value json.loads returned
extract_transcript_from_textract(transcript_json) ==
    IF "results" \notin DOMAIN transcript_json THEN
        [output_text |-> <<>>, current_speaker |-> None, headers |-> <<>>,
         error |-> KeyError("results")]
    ELSE IF "items" \notin DOMAIN transcript_json.results THEN
        [output_text |-> <<>>, current_speaker |-> None, headers |-> <<>>,
         error |-> KeyError("items")]
    ELSE FormatLoop(transcript_json.results.items, 1,
                    [output_text |-> <<>>, current_speaker |-> None,
                     headers |-> <<>>, error |-> NoError])

----------------------------------------------------------------------------
(* Inputs of the formatter *)

Labels == {"spk_0", "spk_1"}

Word(content) == [type |-> "pronunciation", alternatives |-> <<[content |-> content]>>]
Punct(content) == [type |-> "punctuation", alternatives |-> <<[content |-> content]>>]
Labelled(item, label) == [x \in DOMAIN item \cup {"speaker_label"} |->
                            IF x = "speaker_label" THEN label ELSE item[x]]

WordContents == {<<"Hello">>, <<"um", " ">>, <<>>}
PunctContents == {<<",">>}

PlainItems == {Word(c) : c \in WordContents} \cup {Punct(c) : c \in PunctContents}
WellFormedItems == PlainItems \cup {Labelled(it, l) : it \in PlainItems, l \in Labels}
MalformedItems == {[type |-> "pronunciation"],
                   [alternatives |-> <<[content |-> <<"Hello">>]>>, speaker_label |-> "spk_0"]}
Items == WellFormedItems \cup MalformedItems

ItemSeqs == UNION {[1..n -> Items] : n \in 0..MaxItems}

Doc(items) == [results |-> [items |-> items]]

InitFormatter ==
    /\ fmt_doc \in {Doc(items) : items \in ItemSeqs}
    /\ fmt_out = NotRun

Format ==
    /\ fmt_out = NotRun
    /\ fmt_out' = extract_transcript_from_textract(fmt_doc)
    /\ UNCHANGED <<fmt_doc, sumVars, trVars, pipeVars>>

----------------------------------------------------------------------------
(* Events and handler results *)

Buckets == {"audio-bucket", "text-bucket"}

K_dialog == <<"dialog.mp3">>
K_other == <<"other.mp3">>
K_results == <<"results.txt">>
K_job123 == <<"job123", "-transcript.json">>
K_job456 == <<"job456", "-transcript.json">>
K_bak == <<"job", "-transcript.json", ".bak">>

\* event['Records'][0]['s3']
Event(bucket, key) == [bucket |-> bucket, key |-> key]
NoEvent == [no_event |-> TRUE]

Response(code, message) == [statusCode |-> code, body |-> JsonDumps(message)]

\* fault: the error reported as a success
ErrorResponseAs200(e) == Response(200, <<"Error occurred: ">> \o e.str)
\* the except branch of either handler
ErrorResponse(e) == Response(500, <<"Error occurred: ">> \o e.str)

----------------------------------------------------------------------------
(* Transcription Handler: lambda_transcribe.lambda_handler *)

TrInvs == 1..NumTr

\* values uuid.uuid4() may return
UUIDs == {"uuid-a", "uuid-b", "uuid-c"}

\* fault: any .mp3 key accepted
TrAcceptsAnyMp3(key) == key \in {K_dialog, K_other}
\* fault: no filter
TrAcceptsAll(key) == TRUE
\* the key lambda_transcribe accepts
TrAccepts(key) == key = K_dialog

\* fault: os.environ.get with a default bucket
EnvironGetDefault(env) ==
    [error |-> NoError,
     value |-> IF "S3BUCKETNAMETEXT" \in DOMAIN env THEN env.S3BUCKETNAMETEXT ELSE "audio-bucket"]
\* os.environ['S3BUCKETNAMETEXT']: the value, or the KeyError raised
EnvironLookup(env) ==
    IF "S3BUCKETNAMETEXT" \in DOMAIN env
    THEN [error |-> NoError, value |-> env.S3BUCKETNAMETEXT]
    ELSE [error |-> KeyError("S3BUCKETNAMETEXT"), value |-> None]

\* 'transcription-job-' + str(uuid.uuid4())
JobName(u) == <<"transcription-job-", u>>

\* fault: an output key that does not carry the job name
StartRequestFixedKey(job_name, bucket, key, out_bucket) ==
    [TranscriptionJobName |-> job_name,
     MediaFileUri |-> <<"s3://", bucket, "/">> \o key,
     MediaFormat |-> "mp3",
     LanguageCode |-> "en-US",
     OutputBucketName |-> out_bucket,
     OutputKey |-> <<"transcript.json">>,
     ShowSpeakerLabels |-> TRUE,
     MaxSpeakerLabels |-> 2]
\* the keyword arguments of start_transcription_job
StartRequest(job_name, bucket, key, out_bucket) ==
    [TranscriptionJobName |-> job_name,
     MediaFileUri |-> <<"s3://", bucket, "/">> \o key,
     MediaFormat |-> "mp3",
     LanguageCode |-> "en-US",
     OutputBucketName |-> out_bucket,
     OutputKey |-> job_name \o <<"-transcript.json">>,
     ShowSpeakerLabels |-> TRUE,
     MaxSpeakerLabels |-> 2]

\* what may become of a job-start request: the service refuses a job name
\* already in use; otherwise it starts the job, or fails (throttling, access),
\* or starts the job while the client sees the call fail (a lost response)
ServiceOutcomes(req) ==
    IF \E j \in jobs : j.TranscriptionJobName = req.TranscriptionJobName
    THEN {[started |-> FALSE,
           error |-> Exc("ConflictException", <<"The requested job name already exists">>)]}
    ELSE {[started |-> TRUE, error |-> NoError],
          [started |-> FALSE,
           error |-> Exc("ClientError", <<"An error occurred when calling StartTranscriptionJob">>)],
          [started |-> TRUE,
           error |-> Exc("ReadTimeoutError", <<"Read timeout on endpoint URL">>)]}

\* one invocation of the handler with event (bucket, key); it draws the
\* uuid u and the service answers the request, if one is issued
TranscribeHandler(i, bucket, key) ==
    /\ tr_pc[i] = "idle"
    /\ tr_pc' = [tr_pc EXCEPT ![i] = "done"]
    /\ tr_event' = [tr_event EXCEPT ![i] = Event(bucket, key)]
    /\ UNCHANGED <<environ, fmtVars, sumVars, pipeVars>>
    /\ IF ~TrAccepts(key)
       THEN /\ tr_ret' = [tr_ret EXCEPT ![i] =
                    Response(200, <<"Skipping file ">> \o key \o <<" - not dialog.mp3">>)]
            /\ UNCHANGED <<jobs, tr_calls>>
       ELSE \E u \in UUIDs :
            LET job_name == JobName(u)
                out == EnvironLookup(environ)
                req == StartRequest(job_name, bucket, key, out.value)
            IN  IF out.error # NoError
                THEN /\ tr_ret' = [tr_ret EXCEPT ![i] = ErrorResponse(out.error)]
                     /\ UNCHANGED <<jobs, tr_calls>>
                ELSE \E answer \in ServiceOutcomes(req) :
                     /\ tr_calls' = [tr_calls EXCEPT ![i] =
                            Append(@, [request |-> req, outcome |-> answer.error])]
                     /\ jobs' = IF answer.started THEN jobs \cup {req} ELSE jobs
                     /\ IF answer.error = NoError
                        THEN tr_ret' = [tr_ret EXCEPT ![i] =
                                    Response(200, <<"Submitted transcription job for ">> \o key
                                                  \o <<" from bucket ", bucket, ".">>)]
                        ELSE tr_ret' = [tr_ret EXCEPT ![i] = ErrorResponse(answer.error)]

TrKeys == {K_dialog, K_other, K_results, JobName("uuid-a") \o <<"-transcript.json">>}

Environs == {[S3BUCKETNAMETEXT |-> "text-bucket", AWS_REGION |-> "us-west-2"],
             [AWS_REGION |-> "us-west-2"]}

IdleTranscriber ==
    /\ jobs = {}
    /\ tr_pc = [i \in TrInvs |-> "idle"]
    /\ tr_event = [i \in TrInvs |-> NoEvent]
    /\ tr_calls = [i \in TrInvs |-> <<>>]
    /\ tr_ret = [i \in TrInvs |-> NoReturn]

InitTranscriber ==
    /\ environ \in Environs
    /\ IdleTranscriber

NextTranscriber ==
    \E i \in TrInvs, bucket \in Buckets, key \in TrKeys : TranscribeHandler(i, bucket, key)

----------------------------------------------------------------------------
(* Summarization Handler: lambda_summarize.lambda_handler *)

SumInvs == 1..NumSum

\* fault: no filter
SumAcceptsAll(key) == TRUE
\* fault: the key must end with the suffix
SumAcceptsSuffixOnly(key) == key # <<>> /\ key[Len(key)] = "-transcript.json"
\* the test "-transcript.json" in key
SumAccepts(key) == Contains(key, <<"-transcript.json">>)

\* a stored object holding JSON text, one that is not JSON, one that is not UTF-8
JsonBody(doc) == [utf8 |-> TRUE, json |-> TRUE, doc |-> doc]
NotJsonBody == [utf8 |-> TRUE, json |-> FALSE, doc |-> [none |-> TRUE]]
NotUtf8Body == [utf8 |-> FALSE, json |-> FALSE, doc |-> [none |-> TRUE]]
\* a stored text object, as put_object writes it
TextObject(text) == [Body |-> text, ContentType |-> "text/plain"]

\* response['Body'].read().decode('utf-8') followed by json.loads and the formatter
DecodeAndFormat(body) ==
    IF ~body.utf8 THEN
        [output_text |-> <<>>, current_speaker |-> None, headers |-> <<>>,
         error |-> Exc("UnicodeDecodeError", <<"'utf-8' codec can't decode byte">>)]
    ELSE IF ~body.json THEN
        [output_text |-> <<>>, current_speaker |-> None, headers |-> <<>>,
         error |-> Exc("JSONDecodeError", <<"Expecting value: line 1 column 1 (char 0)">>)]
    ELSE extract_transcript_from_textract(body.doc)

\* data['topics']
Topics == <<"charges", "location", "availability">>

\* the content of prompt_template.txt: text with the two named placeholders
PromptTemplate ==
    [exists |-> TRUE, syntax_ok |-> TRUE,
     text |-> <<"Summarize:", "\n", "{{transcript}}", "\n", "Topics:", " ", "{{topics}}">>]
BrokenTemplate == [exists |-> TRUE, syntax_ok |-> FALSE, text |-> <<"{%", " ", "for">>]
NoTemplate == [exists |-> FALSE, syntax_ok |-> FALSE, text |-> <<>>]

RECURSIVE Join(_)
Join(list) ==
    IF list = <<>> THEN <<>>
    ELSE IF Len(list) = 1 THEN <<list[1]>>
    ELSE <<list[1], ",", " ">> \o Join(Tail(list))

\* Template(template_string).render(data)
RECURSIVE Render(_, _)
Render(text, data) ==
    IF text = <<>> THEN <<>>
    ELSE (CASE text[1] = "{{transcript}}" -> data.transcript
            [] text[1] = "{{topics}}" -> Join(data.topics)
            [] OTHER -> <<text[1]>>) \o Render(Tail(text), data)

\* fault: the dialogue left out of the data
PromptDataRaw(transcript) == [transcript |-> <<>>, topics |-> Topics]
\* the data the prompt is rendered from
PromptData(transcript) == [transcript |-> transcript, topics |-> Topics]

\* kwargs of bedrock_runtime.invoke_model
ModelRequest(prompt) ==
    [modelId |-> "us.amazon.nova-lite-v1:0",
     contentType |-> "application/json",
     accept |-> "*/*",
     body |-> [messages |-> <<[role |-> "user", content |-> <<[text |-> prompt]>>]>>,
               inferenceConfig |-> [maxTokens |-> 2048, temperature |-> 0, topP |-> "0.9"]]]

\* the text the model writes for a prompt
ModelText(prompt) == <<"Summary of: ">> \o prompt

Envelope(content) == [output |-> [message |-> [content |-> content]]]

\* what invoke_model may answer: an error, or a response envelope
ModelOutcomes(prompt) ==
    {[error |-> Exc("ClientError", <<"An error occurred when calling InvokeModel">>),
      body |-> [none |-> TRUE]],
     [error |-> NoError, body |-> Envelope(<<[text |-> ModelText(prompt)]>>)],
     [error |-> NoError,
      body |-> Envelope(<<[image |-> "png"], [text |-> ModelText(prompt)], [text |-> <<"more">>]>>)],
     [error |-> NoError, body |-> Envelope(<<[image |-> "png"]>>)],
     [error |-> NoError, body |-> [message |-> "Internal failure"]]}

\* next((item for item in content_list if "text" in item), None), then its text or ""
RECURSIVE FirstText(_)
FirstText(content_list) ==
    IF content_list = <<>> THEN <<>>
    ELSE IF "text" \in DOMAIN content_list[1] THEN content_list[1].text
    ELSE FirstText(Tail(content_list))

\* response_body["output"]["message"]["content"] and the extraction of the summary
ExtractSummary(response_body) ==
    IF "output" \notin DOMAIN response_body
    THEN [error |-> KeyError("output"), summary |-> <<>>]
    ELSE [error |-> NoError, summary |-> FirstText(response_body.output.message.content)]

\* the handler up to the formatted transcript: the filter, get_object, decode
\* and extract_transcript_from_textract
GetOutcomes(bucket, key) ==
    IF s3[bucket][key] = Absent
    THEN {[error |-> Exc("NoSuchKey", <<"The specified key does not exist.">>), body |-> Absent]}
    ELSE {[error |-> NoError, body |-> s3[bucket][key]],
          [error |-> Exc("ClientError", <<"An error occurred when calling GetObject">>),
           body |-> Absent]}

SumFail(i, e) ==
    /\ sum_pc' = [sum_pc EXCEPT ![i] = "done"]
    /\ sum_ret' = [sum_ret EXCEPT ![i] = ErrorResponse(e)]

SumFetch(i, bucket, key) ==
    /\ sum_pc[i] = "idle"
    /\ sum_event' = [sum_event EXCEPT ![i] = Event(bucket, key)]
    /\ UNCHANGED <<s3, template, put_log, fmtVars, trVars, pipeVars>>
    /\ IF ~SumAccepts(key)
       THEN /\ sum_pc' = [sum_pc EXCEPT ![i] = "done"]
            /\ sum_ret' = [sum_ret EXCEPT ![i] =
                    Response(200, <<"Skipping file ">> \o key
                                  \o <<" - not a transcript JSON file">>)]
            /\ UNCHANGED <<sum_local, sum_calls>>
       ELSE \E got \in GetOutcomes(bucket, key) :
            /\ sum_calls' = [sum_calls EXCEPT ![i] =
                    Append(@, [op |-> "get_object", Bucket |-> bucket, Key |-> key,
                               outcome |-> got.error])]
            /\ IF got.error # NoError
               THEN SumFail(i, got.error) /\ UNCHANGED sum_local
               ELSE LET f == DecodeAndFormat(got.body)
                    IN  IF f.error # NoError
                        THEN SumFail(i, f.error) /\ UNCHANGED sum_local
                        ELSE /\ sum_local' = [sum_local EXCEPT ![i].transcript = f.output_text]
                             /\ sum_pc' = [sum_pc EXCEPT ![i] = "bedrock"]
                             /\ UNCHANGED sum_ret

\* bedrock_summarisation(transcript): template, prompt, model call, summary
SumBedrock(i) ==
    /\ sum_pc[i] = "bedrock"
    /\ UNCHANGED <<s3, template, put_log, sum_event, fmtVars, trVars, pipeVars>>
    /\ IF ~template.exists
       THEN /\ SumFail(i, Exc("FileNotFoundError",
                    <<"[Errno 2] No such file or directory: 'prompt_template.txt'">>))
            /\ UNCHANGED <<sum_local, sum_calls>>
       ELSE IF ~template.syntax_ok
       THEN /\ SumFail(i, Exc("TemplateSyntaxError", <<"unexpected end of template">>))
            /\ UNCHANGED <<sum_local, sum_calls>>
       ELSE LET prompt == Render(template.text, PromptData(sum_local[i].transcript))
                request == ModelRequest(prompt)
            IN  \E answer \in ModelOutcomes(prompt) :
                /\ sum_calls' = [sum_calls EXCEPT ![i] =
                        Append(@, [op |-> "invoke_model", request |-> request,
                                   outcome |-> answer.error])]
                /\ IF answer.error # NoError
                   THEN SumFail(i, answer.error) /\ UNCHANGED sum_local
                   ELSE LET x == ExtractSummary(answer.body)
                        IN  IF x.error # NoError
                            THEN SumFail(i, x.error) /\ UNCHANGED sum_local
                            ELSE /\ sum_local' = [sum_local EXCEPT ![i].summary = x.summary]
                                 /\ sum_pc' = [sum_pc EXCEPT ![i] = "put"]
                                 /\ UNCHANGED sum_ret

\* fault: a put that does not overwrite
PutIfAbsent(store, bucket, key, object) ==
    IF store[bucket][key] = Absent
    THEN [store EXCEPT ![bucket][key] = object] ELSE store
\* fault: a put to another bucket than the event's
PutOtherBucket(store, bucket, key, object) ==
    [store EXCEPT ![CHOOSE b \in Buckets : b # bucket][key] = object]
\* the object store after put_object(Bucket, Key, Body, ContentType)
PutObject(store, bucket, key, object) ==
    [store EXCEPT ![bucket][key] = object]

\* what may become of a put_object request: applied, refused, or applied
\* while the client sees the call fail (a lost response)
PutOutcomes ==
    {[applied |-> TRUE, error |-> NoError],
     [applied |-> FALSE,
      error |-> Exc("ClientError", <<"An error occurred when calling PutObject">>)],
     [applied |-> TRUE, error |-> Exc("ReadTimeoutError", <<"Read timeout on endpoint URL">>)]}

\* the put of results.txt and the return of the handler
SumPut(i) ==
    /\ sum_pc[i] = "put"
    /\ UNCHANGED <<template, sum_event, sum_local, fmtVars, trVars, pipeVars>>
    /\ LET bucket == sum_event[i].bucket
           key == sum_event[i].key
           summary == sum_local[i].summary
       IN  \E answer \in PutOutcomes :
           /\ sum_calls' = [sum_calls EXCEPT ![i] =
                   Append(@, [op |-> "put_object", Bucket |-> bucket, Key |-> K_results,
                              Body |-> summary, ContentType |-> "text/plain",
                              outcome |-> answer.error])]
           /\ IF answer.applied
              THEN /\ s3' = PutObject(s3, bucket, K_results, TextObject(summary))
                   /\ put_log' = Append(put_log, [inv |-> i, Bucket |-> bucket,
                                                   Key |-> K_results, Body |-> summary])
              ELSE UNCHANGED <<s3, put_log>>
           /\ IF answer.error # NoError
              THEN SumFail(i, answer.error)
              ELSE /\ sum_pc' = [sum_pc EXCEPT ![i] = "done"]
                   /\ sum_ret' = [sum_ret EXCEPT ![i] =
                          Response(200, <<"Successfully summarized ">> \o key
                                        \o <<" from bucket ", bucket, ". Summary: ">>
                                        \o summary)]

\* Scenario 1 of the specification, and a second dialogue
Scenario1Items ==
    <<Labelled(Word(<<"Hello">>), "spk_0"), Punct(<<",">>), Labelled(Word(<<"there">>), "spk_0")>>
Dialogue2Items ==
    <<Labelled(Word(<<"Hi">>), "spk_0"), Labelled(Word(<<"Bye">>), "spk_1"),
      Labelled(Punct(<<".">>), "spk_1")>>

K_bad == <<"bad", "-transcript.json">>
K_gone == <<"gone", "-transcript.json">>
SumKeys == {K_job123, K_job456, K_bad, K_gone, K_bak, K_results}
OldResults == TextObject(<<"old", " ", "summary">>)

\* bodies that make decode, json.loads or the formatter raise
NoResultsBody == JsonBody([transcripts |-> <<>>])
EmptyAlternativesBody == JsonBody(Doc(<<Labelled(Word(<<"Hello">>), "spk_0"), [alternatives |-> <<>>]>>))

\* the objects of a bucket before the invocations
InitialBucket(b) ==
    [key \in SumKeys |->
        CASE key = K_job123 -> JsonBody(Doc(Scenario1Items))
          [] key = K_job456 -> JsonBody(Doc(Dialogue2Items))
          [] key = K_bak -> IF b = "text-bucket" THEN JsonBody(Doc(<<>>)) ELSE NoResultsBody
          [] key = K_bad -> IF b = "text-bucket" THEN NotJsonBody ELSE EmptyAlternativesBody
          [] key = K_gone -> IF b = "text-bucket" THEN Absent ELSE NotUtf8Body
          [] key = K_results -> IF b = "text-bucket" THEN OldResults ELSE Absent
          [] OTHER -> Absent]

IdleSummarizer ==
    /\ sum_pc = [i \in SumInvs |-> "idle"]
    /\ sum_event = [i \in SumInvs |-> NoEvent]
    /\ sum_local = [i \in SumInvs |-> [transcript |-> <<>>, summary |-> <<>>]]
    /\ sum_calls = [i \in SumInvs |-> <<>>]
    /\ sum_ret = [i \in SumInvs |-> NoReturn]
    /\ put_log = <<>>

InitSummarizer ==
    /\ s3 = [b \in Buckets |-> InitialBucket(b)]
    /\ template \in {PromptTemplate, BrokenTemplate, NoTemplate}
    /\ IdleSummarizer

NextSummarizer ==
    \/ \E i \in SumInvs, bucket \in Buckets, key \in SumKeys : SumFetch(i, bucket, key)
    \/ \E i \in SumInvs : SumBedrock(i)
    \/ \E i \in SumInvs : SumPut(i)

----------------------------------------------------------------------------
(* Specifications *)

NextFormatter == Format

\* no upload yet
IdlePipeline ==
    /\ events = <<>>
    /\ completed = {}

\* the formatter applied to every item list of at most MaxItems items
InitFmt ==
    /\ InitFormatter
    /\ s3 = [b \in Buckets |-> [key \in SumKeys |-> Absent]]
    /\ template = NoTemplate
    /\ IdleSummarizer
    /\ environ = [AWS_REGION |-> "us-west-2"]
    /\ IdleTranscriber
    /\ IdlePipeline
SpecFmt == InitFmt /\ [][NextFormatter]_vars

\* Transcription Handler invocations, sequential or overlapping
InitTr ==
    /\ InitTranscriber
    /\ fmt_doc = Doc(<<>>) /\ fmt_out = NotRun
    /\ s3 = [b \in Buckets |-> [key \in SumKeys |-> Absent]]
    /\ template = NoTemplate
    /\ IdleSummarizer
    /\ IdlePipeline
SpecTr == InitTr /\ [][NextTranscriber]_vars

\* uuid.uuid4() does not return a value twice: the job name of a new request
\* is the name of no earlier request
FreshUuid ==
    \A i \in DOMAIN tr_calls :
        tr_calls'[i] # tr_calls[i] =>
            \A k \in DOMAIN tr_calls : \A n \in 1..Len(tr_calls[k]) :
                tr_calls[k][n].request.TranscriptionJobName
                    # tr_calls'[i][Len(tr_calls'[i])].request.TranscriptionJobName

\* an invocation whose uuid4 value is a new one
TranscribeFresh(i, bucket, key) == TranscribeHandler(i, bucket, key) /\ FreshUuid

NextTrFresh ==
    \E i \in TrInvs, bucket \in Buckets, key \in TrKeys : TranscribeFresh(i, bucket, key)

\* Transcription Handler invocations with uuid4 values that never repeat
SpecTrFresh == InitTr /\ [][NextTrFresh]_vars

\* Summarization Handler invocations, interleaved at their external calls
InitSum ==
    /\ InitSummarizer
    /\ fmt_doc = Doc(<<>>) /\ fmt_out = NotRun
    /\ environ = [AWS_REGION |-> "us-west-2"]
    /\ IdleTranscriber
    /\ IdlePipeline
SpecSum == InitSum /\ [][NextSummarizer]_vars

----------------------------------------------------------------------------
(* The pipeline: uploads, the speech service and the two functions, each   *)
(* function notified of every object created in either bucket              *)

\* the notifications MaxUploads uploads cause at most: for each the upload,
\* the transcript and results.txt
MaxEvents == 3 * MaxUploads
PipeInvs == 1..MaxEvents

\* f'{job_name}-transcript.json' for the job name made of uuid u
TranscriptKey(u) == JobName(u) \o <<"-transcript.json">>
PipeKeys == {K_dialog, K_results} \cup {TranscriptKey(u) : u \in UUIDs}

\* the destination bucket: a bucket of its own, the audio bucket itself
\* (one shared bucket), or not configured
PipeEnvirons ==
    Environs \cup {[S3BUCKETNAMETEXT |-> "audio-bucket", AWS_REGION |-> "us-west-2"]}

InitPipe ==
    /\ fmt_doc = Doc(<<>>) /\ fmt_out = NotRun
    /\ s3 = [b \in Buckets |-> [key \in PipeKeys |-> Absent]]
    /\ template \in {PromptTemplate, BrokenTemplate, NoTemplate}
    /\ sum_pc = [i \in PipeInvs |-> "idle"]
    /\ sum_event = [i \in PipeInvs |-> NoEvent]
    /\ sum_local = [i \in PipeInvs |-> [transcript |-> <<>>, summary |-> <<>>]]
    /\ sum_calls = [i \in PipeInvs |-> <<>>]
    /\ sum_ret = [i \in PipeInvs |-> NoReturn]
    /\ put_log = <<>>
    /\ environ \in PipeEnvirons
    /\ jobs = {}
    /\ tr_pc = [i \in PipeInvs |-> "idle"]
    /\ tr_event = [i \in PipeInvs |-> NoEvent]
    /\ tr_calls = [i \in PipeInvs |-> <<>>]
    /\ tr_ret = [i \in PipeInvs |-> NoReturn]
    /\ IdlePipeline

\* the notifications so far for objects with this key
EventsFor(key) == {k \in 1..Len(events) : events[k].key = key}
Uploads == Cardinality(EventsFor(K_dialog))

\* a user uploads dialog.mp3 to the audio bucket
Upload ==
    /\ Uploads < MaxUploads
    /\ Len(events) < MaxEvents
    /\ s3' = PutObject(s3, "audio-bucket", K_dialog, NotUtf8Body)
    /\ events' = Append(events, Event("audio-bucket", K_dialog))
    /\ UNCHANGED <<completed, template, sum_pc, sum_event, sum_local, sum_calls,
                   sum_ret, put_log, fmtVars, trVars>>

\* notification k invokes the Transcription Handler
PipeTranscribe(k) ==
    /\ k <= Len(events)
    /\ TranscribeHandler(k, events[k].bucket, events[k].key)

\* notification k invokes the Summarization Handler
PipeSumFetch(k) ==
    /\ k <= Len(events)
    /\ SumFetch(k, events[k].bucket, events[k].key)

\* the speech service finishes job j: it writes the transcript to
\* OutputBucketName/OutputKey, or the job fails and writes nothing
JobCompletes(j, ok) ==
    /\ j \in jobs
    /\ \A c \in completed : c.job # j
    /\ completed' = completed \cup {[job |-> j, ok |-> ok]}
    /\ IF ok
       THEN /\ Len(events) < MaxEvents
            /\ s3' = PutObject(s3, j.OutputBucketName, j.OutputKey,
                               JsonBody(Doc(Scenario1Items)))
            /\ events' = Append(events, Event(j.OutputBucketName, j.OutputKey))
       ELSE UNCHANGED <<s3, events>>
    /\ UNCHANGED <<template, sum_pc, sum_event, sum_local, sum_calls, sum_ret,
                   put_log, fmtVars, trVars>>

\* some job reaches a final state
JobFinishes == \E j \in jobs, ok \in BOOLEAN : JobCompletes(j, ok)

\* the store notifies of the next results.txt written by put_object
NotifyResults ==
    /\ Cardinality(EventsFor(K_results)) < Len(put_log)
    /\ Len(events) < MaxEvents
    /\ events' = Append(events,
            Event(put_log[Cardinality(EventsFor(K_results)) + 1].Bucket, K_results))
    /\ UNCHANGED <<completed, fmtVars, sumVars, trVars>>

NextPipe ==
    \/ Upload
    \/ \E k \in PipeInvs : PipeTranscribe(k)
    \/ JobFinishes
    \/ \E k \in PipeInvs : PipeSumFetch(k)
    \/ \E k \in PipeInvs : SumBedrock(k)
    \/ \E k \in PipeInvs : SumPut(k)
    \/ NotifyResults

\* every notification is delivered and every invocation runs to its return;
\* every job reaches a final state; uploads are up to the user
PipeFairness ==
    /\ \A k \in PipeInvs : WF_vars(PipeTranscribe(k))
    /\ \A k \in PipeInvs : WF_vars(PipeSumFetch(k))
    /\ \A k \in PipeInvs : WF_vars(SumBedrock(k))
    /\ \A k \in PipeInvs : WF_vars(SumPut(k))
    /\ WF_vars(JobFinishes)
    /\ WF_vars(NotifyResults)

SpecPipe == InitPipe /\ [][NextPipe]_vars /\ PipeFairness

----------------------------------------------------------------------------
(* Claims about the Transcription Handler, under SpecTr *)

TrDone(i) == tr_pc[i] = "done"
TrSucceeded(i) == \E n \in 1..Len(tr_calls[i]) : tr_calls[i][n].outcome = NoError
TrFailed(i) == \E n \in 1..Len(tr_calls[i]) : tr_calls[i][n].outcome # NoError

\* C2: an invocation for key "dialog.mp3" whose job-start call succeeds returns
\* statusCode 200 and has issued exactly one job-start request, for
\* s3://<bucket>/<key>, mp3, en-US, speaker labels on, at most 2 speakers, with
\* the output bucket of the environment variable and the output key
\* "<job name>-transcript.json" of the job name of that request.
C2_AcceptedSubmitsOneJob ==
    \A i \in TrInvs :
        (TrDone(i) /\ tr_event[i].key = <<"dialog.mp3">> /\ TrSucceeded(i)) =>
            /\ tr_ret[i].statusCode = 200
            /\ Len(tr_calls[i]) = 1
            /\ LET r == tr_calls[i][1].request
               IN  /\ r.MediaFileUri = <<"s3://", tr_event[i].bucket, "/", "dialog.mp3">>
                   /\ r.MediaFormat = "mp3"
                   /\ r.LanguageCode = "en-US"
                   /\ r.ShowSpeakerLabels = TRUE
                   /\ r.MaxSpeakerLabels = 2
                   /\ "S3BUCKETNAMETEXT" \in DOMAIN environ
                   /\ r.OutputBucketName = environ.S3BUCKETNAMETEXT
                   /\ r.OutputKey = r.TranscriptionJobName \o <<"-transcript.json">>
                   /\ r \in jobs

C2_Witness ==
    \E i \in TrInvs :
        /\ TrDone(i) /\ tr_event[i].key = <<"dialog.mp3">> /\ TrSucceeded(i)
        /\ tr_event[i].bucket = "audio-bucket"
        /\ tr_calls[i][1].request.OutputBucketName = "text-bucket"
        /\ tr_ret[i].statusCode = 200

\* C3: an invocation for any key other than "dialog.mp3" returns statusCode 200
\* with a body containing "Skipping file <key>" and issues no request.
C3_OtherKeySkipped ==
    \A i \in TrInvs :
        (TrDone(i) /\ tr_event[i].key # <<"dialog.mp3">>) =>
            /\ tr_ret[i].statusCode = 200
            /\ Contains(tr_ret[i].body, <<"Skipping file ">> \o tr_event[i].key)
            /\ tr_calls[i] = <<>>
            /\ \A j \in jobs : \E k \in TrInvs :
                    k # i /\ tr_calls[k] # <<>> /\ tr_calls[k][1].request = j

C3_Witness ==
    \E i \in TrInvs :
        /\ TrDone(i) /\ tr_event[i].key = <<"other.mp3">>
        /\ tr_ret[i].statusCode = 200
        /\ tr_calls[i] = <<>>

\* C6: a failed job-start call is reported as statusCode 500 with the error's
\* string in the body, and no invocation issues more than one job-start request.
C6_SubmitErrorReportedNoRetry ==
    \A i \in TrInvs :
        /\ Len(tr_calls[i]) <= 1
        /\ (TrDone(i) /\ TrFailed(i)) =>
            /\ tr_ret[i].statusCode = 500
            /\ Contains(tr_ret[i].body, tr_calls[i][1].outcome.str)
            /\ ~Contains(tr_ret[i].body, <<"Skipping file ">>)

C6_Witness ==
    \E i \in TrInvs :
        /\ TrDone(i) /\ TrFailed(i)
        /\ tr_calls[i][1].outcome.raised = "ClientError"
        /\ tr_ret[i].statusCode = 500

\* C7: without the environment variable, an invocation for "dialog.mp3" does
\* not return statusCode 200 (it reports the KeyError) and issues no request.
C7_MissingEnvironmentFails ==
    \A i \in TrInvs :
        (TrDone(i) /\ tr_event[i].key = <<"dialog.mp3">>
            /\ "S3BUCKETNAMETEXT" \notin DOMAIN environ) =>
            /\ tr_ret[i].statusCode # 200
            /\ tr_ret[i] = Response(500, <<"Error occurred: ", "'", "S3BUCKETNAMETEXT", "'">>)
            /\ tr_calls[i] = <<>>
            /\ jobs = {}

C7_Witness ==
    \E i \in TrInvs :
        /\ TrDone(i) /\ tr_event[i].key = <<"dialog.mp3">>
        /\ "S3BUCKETNAMETEXT" \notin DOMAIN environ
        /\ tr_ret[i].statusCode = 500

----------------------------------------------------------------------------
(* Claims about the Summarization Handler, under SpecSum *)

SumDone(i) == sum_pc[i] = "done"
SumCalls(i, op) == SelectSeq(sum_calls[i], LAMBDA c : c.op = op)
SumSucceeded(i, op) ==
    \E n \in 1..Len(sum_calls[i]) : sum_calls[i][n].op = op /\ sum_calls[i][n].outcome = NoError
HasSuffixToken(key) == \E n \in 1..Len(key) : key[n] = "-transcript.json"
\* the object that triggered invocation i (the handlers never write such a key)
Triggering(i) == s3[sum_event[i].bucket][sum_event[i].key]
ValidTranscript(body) ==
    /\ body # Absent
    /\ "doc" \in DOMAIN body
    /\ DecodeAndFormat(body).error = NoError
\* the dialogue Scenario 1 of the specification expects
Scenario1Dialogue == <<"\n", "spk_0", ":", " ", "Hello", ",", " ", "there", " ">>

\* C1: an invocation for an accepted key and a valid transcript whose fetch,
\* model call and write succeed has invoked the model exactly once, with a
\* prompt holding the formatted dialogue and the topics charges, location and
\* availability, has written exactly one object, at "results.txt" in the
\* bucket of the event, and returns statusCode 200.
C1_AcceptedSummarizedOnce ==
    \A i \in SumInvs :
        (SumDone(i) /\ HasSuffixToken(sum_event[i].key) /\ ValidTranscript(Triggering(i))
            /\ SumSucceeded(i, "get_object") /\ SumSucceeded(i, "invoke_model")
            /\ SumSucceeded(i, "put_object")) =>
            /\ sum_ret[i].statusCode = 200
            /\ Len(SumCalls(i, "get_object")) = 1
            /\ Len(SumCalls(i, "invoke_model")) = 1
            /\ Len(SumCalls(i, "put_object")) = 1
            /\ LET prompt == SumCalls(i, "invoke_model")[1].request.body.messages[1].content[1].text
                   put == SumCalls(i, "put_object")[1]
               IN  /\ Contains(prompt, DecodeAndFormat(Triggering(i)).output_text)
                   /\ sum_event[i].key = K_job123 => Contains(prompt, Scenario1Dialogue)
                   /\ Contains(prompt, <<"charges">>)
                   /\ Contains(prompt, <<"location">>)
                   /\ Contains(prompt, <<"availability">>)
                   /\ put.Key = <<"results.txt">>
                   /\ put.Bucket = sum_event[i].bucket
                   /\ put.ContentType = "text/plain"
                   /\ \E n \in 1..Len(put_log) :
                        put_log[n] = [inv |-> i, Bucket |-> sum_event[i].bucket,
                                      Key |-> <<"results.txt">>, Body |-> put.Body]
                   /\ s3[sum_event[i].bucket][<<"results.txt">>] # Absent

C1_Witness ==
    \E i \in SumInvs :
        /\ SumDone(i) /\ sum_event[i] = Event("audio-bucket", K_job123)
        /\ SumSucceeded(i, "put_object")
        /\ sum_ret[i].statusCode = 200
        /\ s3["audio-bucket"][K_results] =
             TextObject(<<"Summary of: ", "Summarize:", "\n">> \o Scenario1Dialogue
                        \o <<"\n", "Topics:", " ", "charges", ",", " ", "location", ",", " ",
                             "availability">>)

\* C4: an invocation whose key does not contain "-transcript.json" returns
\* statusCode 200 with a skip message and issues no fetch, no model call and
\* no write; only keys containing it lead to any request.
C4_OnlyTranscriptKeysProcessed ==
    \A i \in SumInvs :
        /\ (SumDone(i) /\ ~HasSuffixToken(sum_event[i].key)) =>
            /\ sum_ret[i].statusCode = 200
            /\ Contains(sum_ret[i].body, <<"Skipping file ">> \o sum_event[i].key)
            /\ sum_calls[i] = <<>>
            /\ \A n \in 1..Len(put_log) : put_log[n].inv # i
        /\ sum_calls[i] # <<>> => HasSuffixToken(sum_event[i].key)

C4_Witness ==
    \E i \in SumInvs :
        /\ SumDone(i) /\ sum_event[i].key = <<"results.txt">>
        /\ sum_ret[i].statusCode = 200
        /\ sum_calls[i] = <<>>

\* the error the invocation met first, if one of its steps raised
SumFirstError(i) ==
    LET failed == SelectSeq(sum_calls[i], LAMBDA c : c.outcome # NoError)
    IN  IF failed # <<>> THEN failed[1].outcome
        ELSE IF ~SumSucceeded(i, "get_object") THEN NoError
        ELSE IF DecodeAndFormat(Triggering(i)).error # NoError
             THEN DecodeAndFormat(Triggering(i)).error
        ELSE NoError

SumRaised(i) ==
    /\ SumDone(i)
    /\ HasSuffixToken(sum_event[i].key)
    /\ ~SumSucceeded(i, "put_object")

C5_FailureIs500 ==
    \A i \in SumInvs :
        SumRaised(i) =>
            /\ sum_ret[i].statusCode = 500
            /\ Contains(sum_ret[i].body, <<"Error occurred: ">>)
            /\ SumFirstError(i) # NoError =>
                    sum_ret[i] = Response(500, <<"Error occurred: ">> \o SumFirstError(i).str)
            /\ SumCalls(i, "put_object") = <<>> =>
                    (\A n \in 1..Len(put_log) : put_log[n].inv # i)

C5_ResultsWrittenWhole ==
    \A b \in Buckets :
        s3'[b][K_results] # s3[b][K_results] =>
            \E i \in SumInvs :
                /\ sum_pc[i] = "put" /\ sum_pc'[i] = "done"
                /\ sum_event[i].bucket = b
                /\ s3'[b][K_results] = TextObject(sum_local[i].summary)
                /\ SumSucceeded(i, "invoke_model")
                /\ sum_local[i].summary \in
                     {<<>>, ModelText(SumCalls(i, "invoke_model")[1].request.body.messages[1].content[1].text)}

\* C5: an invocation in which a step raises returns statusCode 500 with the
\* error's string in the body, never 200; if it raised before its put it has
\* written nothing; every change of "results.txt" is the put step of an
\* invocation and replaces it by that invocation's whole summary.
C5_FailureLeavesResults ==
    [](C5_FailureIs500) /\ [][C5_ResultsWrittenWhole]_vars

C5_Witness ==
    \E i \in SumInvs :
        /\ SumDone(i) /\ sum_ret[i].statusCode = 500
        /\ sum_event[i].bucket = "text-bucket"
        /\ SumSucceeded(i, "get_object")
        /\ Len(SumCalls(i, "invoke_model")) = 1
        /\ ~SumSucceeded(i, "invoke_model")
        /\ s3["text-bucket"][K_results] = OldResults

\* the puts applied to results.txt of bucket b, in order
PutsTo(b) == SelectSeq(put_log, LAMBDA p : p.Bucket = b /\ p.Key = K_results)

\* C10: "results.txt" of a bucket always holds the whole summary of the
\* invocation whose put was applied last, whatever the interleaving, and
\* every successful invocation of that bucket wrote that same key.
C10_LastWriteWins ==
    /\ \A b \in Buckets :
        PutsTo(b) # <<>> =>
            LET last == PutsTo(b)[Len(PutsTo(b))]
            IN  /\ s3[b][K_results] = TextObject(last.Body)
                /\ last.Body = sum_local[last.inv].summary
                /\ sum_event[last.inv].bucket = b
    /\ \A i \in SumInvs :
        (SumDone(i) /\ sum_ret[i].statusCode = 200 /\ HasSuffixToken(sum_event[i].key)) =>
            \E n \in 1..Len(put_log) :
                put_log[n].inv = i /\ put_log[n].Key = K_results
                    /\ put_log[n].Bucket = sum_event[i].bucket

\* an invocation answered 200 for its transcript while results.txt holds the
\* summary of another transcript of the same bucket
C10_Witness ==
    \E i, j \in SumInvs :
        /\ i # j
        /\ SumDone(i) /\ SumDone(j)
        /\ sum_ret[i].statusCode = 200 /\ sum_ret[j].statusCode = 200
        /\ sum_event[i].bucket = sum_event[j].bucket
        /\ sum_event[i].key = K_job123 /\ sum_event[j].key = K_job456
        /\ sum_local[i].summary # <<>> /\ sum_local[j].summary # <<>>
        /\ s3[sum_event[i].bucket][K_results] = TextObject(sum_local[j].summary)
        /\ s3[sum_event[i].bucket][K_results] # TextObject(sum_local[i].summary)

----------------------------------------------------------------------------
(* Claims about the Transcript Formatter, under SpecFmt *)

FmtItems == fmt_doc.results.items
FmtReturned == fmt_out # NotRun /\ fmt_out.error = NoError
\* the text emitted after the first n items
TextAfter(n) ==
    FormatLoop(SubSeq(FmtItems, 1, n), 1,
               [output_text |-> <<>>, current_speaker |-> None,
                headers |-> <<>>, error |-> NoError]).output_text

\* C8: whenever a punctuation item comes immediately after a word item, the
\* output holds the word's content directly followed by the punctuation's
\* content, whatever their speaker labels.
C8_PunctuationAttachesToWord ==
    FmtReturned =>
        \A n \in 1..(Len(FmtItems) - 1) :
            (FmtItems[n].type = "pronunciation" /\ FmtItems[n + 1].type = "punctuation") =>
                LET word == FmtItems[n].alternatives[1].content
                    mark == FmtItems[n + 1].alternatives[1].content
                    upto == TextAfter(n)
                    start == Len(upto) - 1 - Len(word)
                IN  SubSeq(fmt_out.output_text, start + 1, start + Len(word) + Len(mark))
                        = word \o mark

\* C9: when every item carries the same speaker label, the formatter emits
\* exactly one header "\n<label>: ", and the label appears once in the output.
C9_OneHeaderPerSpeakerRun ==
    FmtReturned =>
        \A l \in Labels :
            (FmtItems # <<>> /\ \A n \in 1..Len(FmtItems) : GetSpeakerLabel(FmtItems[n]) = l) =>
                /\ fmt_out.headers = <<<<"\n", l, ":", " ">>>>
                /\ Occurrences(fmt_out.output_text, <<"\n", l, ":">>) = 1
                /\ Occurrences(fmt_out.output_text, <<l>>) = 1
                /\ SubSeq(fmt_out.output_text, 1, 3) = <<"\n", l, ":">>

C9_Witness ==
    /\ FmtReturned
    /\ Len(FmtItems) = 3
    /\ \A n \in 1..3 : GetSpeakerLabel(FmtItems[n]) = "spk_1"
    /\ FmtItems[1].type = "pronunciation" /\ FmtItems[3].type = "pronunciation"
    /\ Occurrences(fmt_out.output_text, <<"spk_1">>) = 1

----------------------------------------------------------------------------
(* The formatter as the specification words it (section 4.1) *)

\* "remove the single trailing space already emitted"
RemoveTrailingSpace(text) ==
    IF text # <<>> /\ text[Len(text)] = " " THEN SubSeq(text, 1, Len(text) - 1) ELSE text

RECURSIVE SpecifiedFormat(_, _, _)
SpecifiedFormat(items, current, text) ==
    IF items = <<>> THEN text
    ELSE LET item == items[1]
             label == GetSpeakerLabel(item)
             new == label # None /\ label # current
             t1 == IF new THEN text \o <<"\n", label, ":", " ">> ELSE text
             t2 == IF item.type = "punctuation" THEN RemoveTrailingSpace(t1) ELSE t1
         IN  SpecifiedFormat(Tail(items), IF new THEN label ELSE current,
                             t2 \o item.alternatives[1].content \o <<" ">>)

\* C13: for every item list the formatter's output is that of the specified
\* algorithm: a header exactly when an item carries a label other than the
\* current speaker, a punctuation item removes only the single trailing
\* space, every item appends its content and one space; the empty list gives
\* the empty string.
C13_OutputIsSpecifiedFormat ==
    FmtReturned => fmt_out.output_text = SpecifiedFormat(FmtItems, None, <<>>)

----------------------------------------------------------------------------
(* Further claims about the Summarization Handler, under SpecSum *)

\* C15: the filter is containment, not a suffix test: for the key
\* "job-transcript.json.bak", which does not end with "-transcript.json", the
\* handler fetches the object, and when the body is a valid transcript and the
\* calls succeed it invokes the model once, writes "results.txt" and returns 200.
C15_ContainmentNotSuffix ==
    \A i \in SumInvs :
        (SumDone(i) /\ sum_event[i].key = <<"job", "-transcript.json", ".bak">>) =>
            /\ sum_event[i].key[Len(sum_event[i].key)] # "-transcript.json"
            /\ Len(SumCalls(i, "get_object")) = 1
            /\ SumCalls(i, "get_object")[1].Bucket = sum_event[i].bucket
            /\ SumCalls(i, "get_object")[1].Key = sum_event[i].key
            /\ ~Contains(sum_ret[i].body, <<"Skipping file ">>)
            /\ (ValidTranscript(Triggering(i)) /\ SumSucceeded(i, "get_object")) =>
                    \/ Len(SumCalls(i, "invoke_model")) = 1
                    \/ ~(template.exists /\ template.syntax_ok)
            /\ (SumSucceeded(i, "invoke_model") /\ SumSucceeded(i, "put_object")) =>
                    /\ sum_ret[i].statusCode = 200
                    /\ SumCalls(i, "put_object")[1].Key = <<"results.txt">>
                    /\ SumCalls(i, "put_object")[1].Bucket = sum_event[i].bucket
                    /\ s3[sum_event[i].bucket][<<"results.txt">>] # Absent
                    /\ s3[sum_event[i].bucket][<<"results.txt">>] # OldResults

C15_Witness ==
    \E i \in SumInvs :
        /\ SumDone(i) /\ sum_event[i] = Event("text-bucket", K_bak)
        /\ SumSucceeded(i, "invoke_model") /\ SumSucceeded(i, "put_object")
        /\ sum_ret[i].statusCode = 200
        /\ s3["text-bucket"][K_results] = TextObject(sum_local[i].summary)

----------------------------------------------------------------------------
(* Claims about job identifiers, under SpecTrFresh *)

\* the job-start requests issued so far, each with its invocation and position
TrRequests ==
    {<<i, n>> : i \in DOMAIN tr_calls, n \in 1..NumTr} \cap
    {x \in (DOMAIN tr_calls) \X (1..NumTr) : x[2] <= Len(tr_calls[x[1]])}
TrRequest(x) == tr_calls[x[1]][x[2]].request

----------------------------------------------------------------------------
(* Claims about the pipeline, under SpecPipe *)

TranscriptKeys == {TranscriptKey(u) : u \in UUIDs}
\* the invocations that issued a job-start request, a model invocation
JobStarters == {k \in PipeInvs : tr_calls[k] # <<>>}
ModelInvokers == {k \in PipeInvs : SumCalls(k, "invoke_model") # <<>>}

\* no notification is pending, no invocation is running, no job is running
Quiescent ==
    /\ \A k \in 1..Len(events) : TrDone(k) /\ SumDone(k)
    /\ \A k \in PipeInvs : sum_pc[k] \in {"idle", "done"}
    /\ \A j \in jobs : \E c \in completed : c.job = j
    /\ Cardinality(EventsFor(K_results)) = Len(put_log)

C11_OwnOutputsSkipped ==
    /\ \A k \in 1..Len(events) :
        /\ (events[k].key = K_results /\ SumDone(k)) =>
                /\ sum_calls[k] = <<>>
                /\ sum_ret[k] = Response(200, <<"Skipping file ">> \o K_results
                                              \o <<" - not a transcript JSON file">>)
        /\ (events[k].key \in TranscriptKeys /\ TrDone(k)) =>
                /\ tr_calls[k] = <<>>
                /\ tr_ret[k] = Response(200, <<"Skipping file ">> \o events[k].key
                                             \o <<" - not dialog.mp3">>)
        /\ events[k].key \in {K_dialog, K_results} \cup TranscriptKeys
    /\ \A k \in JobStarters : Len(tr_calls[k]) = 1 /\ events[k].key = K_dialog
    /\ \A k \in ModelInvokers :
        Len(SumCalls(k, "invoke_model")) = 1 /\ events[k].key \in TranscriptKeys
    /\ Cardinality(JobStarters) <= Uploads
    /\ Cardinality(ModelInvokers) <= Uploads
    /\ Cardinality(jobs) <= Uploads
    /\ Len(put_log) <= Uploads
    /\ Len(events) <= 3 * Uploads

\* C11: with both functions notified of every object created, also in one
\* shared bucket, results.txt is skipped by the Summarization Handler and
\* every transcript key by the Transcription Handler, n uploads of dialog.mp3
\* cause at most n job-start requests, n model invocations and 3n
\* notifications, and the pipeline comes to rest with nothing pending.
C11_NoFeedbackLoop == [](C11_OwnOutputsSkipped) /\ <>[](Quiescent)

\* one shared bucket: the upload, its transcript and results.txt have all
\* been seen by both functions
C11_Witness ==
    /\ "S3BUCKETNAMETEXT" \in DOMAIN environ
    /\ environ.S3BUCKETNAMETEXT = "audio-bucket"
    /\ Len(events) = 3
    /\ JobStarters = {1} /\ ModelInvokers = {2}
    /\ events[2] = Event("audio-bucket", tr_calls[1][1].request.OutputKey)
    /\ events[3] = Event("audio-bucket", K_results)
    /\ Quiescent
    /\ sum_ret[3].statusCode = 200 /\ tr_ret[2].statusCode = 200

\* the requests of the Transcription Handler name an output key the
\* Summarization Handler accepts
C12_OutputKeyAccepted ==
    \A k \in PipeInvs : \A n \in 1..Len(tr_calls[k]) :
        /\ SumAccepts(tr_calls[k][n].request.OutputKey)
        /\ tr_calls[k][n].request.OutputKey
            = <<"transcription-job-", tr_calls[k][n].request.TranscriptionJobName[2],
                "-transcript.json">>

\* a Transcription Handler invocation returns in the step that submits the
\* job, with the job unfinished, and touches nothing of the other function;
\* a Summarization Handler step touches nothing of the Transcription Handler
C12_NoWaiting ==
    /\ \A k \in PipeInvs :
        (tr_pc[k] = "idle" /\ tr_pc'[k] = "done") =>
            /\ tr_ret'[k] # NoReturn
            /\ \A j \in jobs' \ jobs : \A c \in completed' : c.job # j
            /\ UNCHANGED <<sumVars, pipeVars>>
    /\ (sum_pc' # sum_pc) => UNCHANGED <<trVars, completed>>

\* no external call failed: every request was answered without error, with
\* a well-formed response, and no job ended in failure
NoCallFails ==
    /\ \A k \in PipeInvs : \A n \in 1..Len(tr_calls[k]) : tr_calls[k][n].outcome = NoError
    /\ \A k \in PipeInvs : \A n \in 1..Len(sum_calls[k]) : sum_calls[k][n].outcome = NoError
    /\ \A k \in PipeInvs : sum_ret[k] # ErrorResponse(KeyError("output"))
    /\ \A c \in completed : c.ok

\* notification k is an upload of dialog.mp3
Uploaded(k) == k <= Len(events) /\ events[k].key = K_dialog

\* results.txt was written in the bucket of the transcript of upload k, by
\* the invocation that transcript triggered
ResultsWritten(k) ==
    /\ tr_calls[k] # <<>>
    /\ \E n \in 1..Len(put_log) :
        /\ put_log[n].Key = K_results
        /\ put_log[n].Bucket = tr_calls[k][1].request.OutputBucketName
        /\ put_log[n].inv <= Len(events)
        /\ events[put_log[n].inv] = Event(tr_calls[k][1].request.OutputBucketName,
                                           tr_calls[k][1].request.OutputKey)
        /\ s3[put_log[n].Bucket][K_results] # Absent

ChainCompletes == \A k \in PipeInvs : Uploaded(k) ~> ResultsWritten(k)

\* the destination bucket is configured and the package holds a well-formed
\* prompt template
Configured ==
    /\ "S3BUCKETNAMETEXT" \in DOMAIN environ
    /\ template.exists /\ template.syntax_ok

\* C12 as stated: requested output keys are accepted by the summarizer's
\* filter, the Transcription Handler does not wait for the job, and if no
\* external call fails, under fair delivery, every upload of dialog.mp3 is
\* eventually followed by a write of results.txt in the transcript's bucket.
C12_ChainCompletes ==
    /\ [](C12_OutputKeyAccepted)
    /\ [][C12_NoWaiting]_vars
    /\ ([](NoCallFails) => ChainCompletes)

\* C12 amended: the same, for a deployment whose destination bucket
\* variable is set and whose prompt template is present and well formed.
C12_ConfiguredChainCompletes ==
    /\ [](C12_OutputKeyAccepted)
    /\ [][C12_NoWaiting]_vars
    /\ ((Configured /\ [](NoCallFails)) => ChainCompletes)

\* a configured deployment, no failure: results.txt written from the transcript
C12_Witness ==
    /\ Configured /\ NoCallFails
    /\ environ.S3BUCKETNAMETEXT = "text-bucket"
    /\ Uploaded(1) /\ ResultsWritten(1)
    /\ tr_ret[1] # NoReturn /\ tr_ret[1].statusCode = 200
    /\ s3["text-bucket"][K_results] = TextObject(sum_local[2].summary)

====
